---- MODULE Spec2Model ----
(***************************************************************************)
(* Model of controllers/job_reconciler.go (JohnStrunk/scribe).             *)
(*                                                                         *)
(* A JobReconciler holds an owner, an in-memory batch Job object, a        *)
(* desired pod template and a pause flag.  Reconcile runs                  *)
(* controllerutil.CreateOrUpdate (Get, mutate with Apply, then Create or   *)
(* Update unless nothing changed), then deletes the Job when its failed    *)
(* count has reached the backoff limit.  The API server is the store the   *)
(* Job lives in; other writers (the Job controller, users) act on it       *)
(* between the reconciler's API calls.                                     *)
(***************************************************************************)
EXTENDS Integers, Sequences, FiniteSets, TLC

VARIABLES
    desired,    \* jr.desired : the desired pod template
    paused,     \* jr.paused
    schemeOK,   \* whether jr.scheme can resolve jr.owner's kind
    job,        \* jr.job : the in-memory Job object
    existing,   \* the Job as the last Get left it, before Apply mutated it
    server,     \* the Job stored by the API server (or absent)
    nextRV,     \* the API server's last resource version
    pc,         \* position of Reconcile: idle, create, update, delete, panicked
    op,         \* operation result of CreateOrUpdate in this Reconcile
    ret,        \* what the last Reconcile returned
    calls,      \* API calls issued by the current/last Reconcile, in order
    lastCfg,    \* arguments of the last Configure* call
    tampers     \* number of updates by other clients so far

vars == <<desired, paused, schemeOK, job, existing, server, nextRV, tampers,
          pc, op, ret, calls, lastCfg>>

reconcilerVars == <<job, existing, pc, op, ret, calls>>
clusterVars == <<server, nextRV, tampers>>

----------------------------------------------------------------------------
(* Bounds *)

MaxRV == 3          \* resource versions the API server hands out
MaxFailed == 3      \* failed attempts the Job controller records
MaxEnv == 1         \* AddEnv calls after a Configure* call
MaxTamper == 1      \* updates of the stored Job by other clients

(* Input sets *)
LabelKeys == {"a", "b"}
LabelVals == {"1", "2"}
PVCNames == {"pvc1", "pvc2"}
SecretNames == {"secret1", "secret2"}
SANames == {"", "sa1"}
EnvNames == {"EXTRA"}
EnvValues == {"x"}
Paths == {"/dst"}
Sections == {"sec"}
ForgetOpts == {"--keep-last 2"}

----------------------------------------------------------------------------
(* Label maps.  A Go map is nil or a finite function. *)

EmptyMap == [k \in {} |-> "1"]
NilLabels == [isNil |-> TRUE, m |-> EmptyMap]
MkLabels(f) == [isNil |-> FALSE, m |-> f]
AllMaps == UNION {[S -> LabelVals] : S \in SUBSET LabelKeys}
AllLabels == {NilLabels} \cup {MkLabels(f) : f \in AllMaps}
(* Labels the caller passes in the reconciliation runs. *)
CallerLabels == {NilLabels, MkLabels([k \in {"b"} |-> "2"])}

(* Pointers to int32: <<>> is nil, <<n>> points to n. *)
NilPtr == <<>>
Ptr(n) == <<n>>
Deref(p) == Head(p)

----------------------------------------------------------------------------
(* Package-level names used by the builders. *)

mountPath == "/data"
dataVolumeName == "data"
resticCacheMountPath == "/cache"
resticCache == "cache"
rcloneSecret == "rclone-secret"
RsyncContainerImage == "rsync-image"
ResticContainerImage == "restic-image"
RcloneContainerImage == "rclone-image"

BackupOnly == "BackupOnly"
BackupAndPrune == "BackupAndPrune"
Restore == "Restore"
ResticActions == {BackupOnly, BackupAndPrune, Restore}

(* corev1.EnvVar with a literal value *)
EnvVar(name, value) ==
    [name |-> name, value |-> value, secret |-> "", key |-> "",
     optional |-> FALSE]

(* An EnvVar whose value is read from key `name` of the named Secret. *)
envFromSecret(secretName, name, optional) ==
    [name |-> name, value |-> "", secret |-> secretName, key |-> name,
     optional |-> optional]

VolumeMount(name, path) == [name |-> name, mountPath |-> path]
PVCVolume(name, claim) ==
    [name |-> name, kind |-> "pvc", ref |-> claim, mode |-> 0]
SecretVolume(name, secretName, mode) ==
    [name |-> name, kind |-> "secret", ref |-> secretName, mode |-> mode]

secretMode == 384   \* 0600 octal

ResticOptionalKeys ==
    << "AWS_ACCESS_KEY_ID", "AWS_SECRET_ACCESS_KEY", "AWS_DEFAULT_REGION",
       "ST_AUTH", "ST_USER", "ST_KEY",
       "OS_AUTH_URL", "OS_REGION_NAME", "OS_USERNAME", "OS_USER_ID",
       "OS_PASSWORD", "OS_TENANT_ID", "OS_TENANT_NAME",
       "OS_USER_DOMAIN_NAME", "OS_USER_DOMAIN_ID", "OS_PROJECT_NAME",
       "OS_PROJECT_DOMAIN_NAME", "OS_PROJECT_DOMAIN_ID", "OS_TRUST_ID",
       "OS_APPLICATION_CREDENTIAL_ID", "OS_APPLICATION_CREDENTIAL_NAME",
       "OS_APPLICATION_CREDENTIAL_SECRET",
       "OS_STORAGE_URL", "OS_AUTH_TOKEN",
       "B2_ACCOUNT_ID", "B2_ACCOUNT_KEY",
       "AZURE_ACCOUNT_NAME", "AZURE_ACCOUNT_KEY",
       "GOOGLE_PROJECT_ID", "GOOGLE_APPLICATION_CREDENTIALS" >>

----------------------------------------------------------------------------
(* The desired template: corev1.PodTemplateSpec restricted to the fields   *)
(* the reconciler touches.                                                 *)

EmptyTemplate ==
    [labels |-> NilLabels, containers |-> <<>>, volumes |-> <<>>,
     serviceAccountName |-> ""]

NoCfg == [profile |-> "none", dataPVC |-> ""]

(* Variant: the mirror builder mounts the data volume at a path of its own. *)
RclonePodSpecOwnMount(isSource, dataPVCName, destinationPath, configSection, rcloneSecretName) ==
    LET direction == IF isSource THEN "source" ELSE "destination" IN
    [containers |-> <<
        [name |-> "rclone",
         env |-> << EnvVar("RCLONE_DEST_PATH", destinationPath),
                    EnvVar("DIRECTION", direction),
                    EnvVar("RCLONE_CONFIG", "/rclone-config/rclone.conf"),
                    EnvVar("RCLONE_CONFIG_SECTION", configSection),
                    EnvVar("MOUNT_PATH", "/mnt") >>,
         command |-> <<"/bin/bash", "-c", "./active.sh">>,
         args |-> <<>>,
         image |-> RcloneContainerImage,
         runAsUser |-> Ptr(0),
         capabilities |-> <<>>,
         volumeMounts |-> << VolumeMount(dataVolumeName, "/mnt"),
                             VolumeMount(rcloneSecret, "/rclone-config") >>] >>,
     volumes |-> << PVCVolume(dataVolumeName, dataPVCName),
                    SecretVolume(rcloneSecret, rcloneSecretName, secretMode) >>,
     serviceAccountName |-> ""]

RclonePodSpec(isSource, dataPVCName, destinationPath, configSection, rcloneSecretName) ==
    LET direction == IF isSource THEN "source" ELSE "destination" IN
    [containers |-> <<
        [name |-> "rclone",
         env |-> << EnvVar("RCLONE_DEST_PATH", destinationPath),
                    EnvVar("DIRECTION", direction),
                    EnvVar("RCLONE_CONFIG", "/rclone-config/rclone.conf"),
                    EnvVar("RCLONE_CONFIG_SECTION", configSection),
                    EnvVar("MOUNT_PATH", mountPath) >>,
         command |-> <<"/bin/bash", "-c", "./active.sh">>,
         args |-> <<>>,
         image |-> RcloneContainerImage,
         runAsUser |-> Ptr(0),
         capabilities |-> <<>>,
         volumeMounts |-> << VolumeMount(dataVolumeName, mountPath),
                             VolumeMount(rcloneSecret, "/rclone-config") >>] >>,
     volumes |-> << PVCVolume(dataVolumeName, dataPVCName),
                    SecretVolume(rcloneSecret, rcloneSecretName, secretMode) >>,
     serviceAccountName |-> ""]

(* Variant: capture-and-prune lists prune before backup. *)
ResticPodSpecPruneFirst(action, forgetOptions, dataPVCName, cachePVCName, resticSecretName) ==
    LET actions == IF action = Restore THEN <<"restore">>
                   ELSE IF action = BackupAndPrune THEN <<"prune", "backup">>
                   ELSE <<"backup">>
    IN
    [containers |-> <<
        [name |-> "restic",
         env |-> << EnvVar("FORGET_OPTIONS", forgetOptions),
                    EnvVar("DATA_DIR", mountPath),
                    EnvVar("RESTIC_CACHE_DIR", resticCacheMountPath),
                    envFromSecret(resticSecretName, "RESTIC_REPOSITORY", FALSE),
                    envFromSecret(resticSecretName, "RESTIC_PASSWORD", FALSE) >>
                 \o [i \in 1..Len(ResticOptionalKeys) |->
                       envFromSecret(resticSecretName, ResticOptionalKeys[i],
                                     TRUE)],
         command |-> <<"/entry.sh">>,
         args |-> actions,
         image |-> ResticContainerImage,
         runAsUser |-> Ptr(0),
         capabilities |-> <<>>,
         volumeMounts |-> << VolumeMount(dataVolumeName, mountPath),
                             VolumeMount(resticCache, resticCacheMountPath) >>] >>,
     volumes |-> << PVCVolume(dataVolumeName, dataPVCName),
                    PVCVolume(resticCache, cachePVCName) >>,
     serviceAccountName |-> ""]

(* Variant: the repository password is optional too. *)
ResticPodSpecAllOptional(action, forgetOptions, dataPVCName, cachePVCName, resticSecretName) ==
    LET actions == IF action = Restore THEN <<"restore">>
                   ELSE IF action = BackupAndPrune THEN <<"backup", "prune">>
                   ELSE <<"backup">>
    IN
    [containers |-> <<
        [name |-> "restic",
         env |-> << EnvVar("FORGET_OPTIONS", forgetOptions),
                    EnvVar("DATA_DIR", mountPath),
                    EnvVar("RESTIC_CACHE_DIR", resticCacheMountPath),
                    envFromSecret(resticSecretName, "RESTIC_REPOSITORY", FALSE),
                    envFromSecret(resticSecretName, "RESTIC_PASSWORD", TRUE) >>
                 \o [i \in 1..Len(ResticOptionalKeys) |->
                       envFromSecret(resticSecretName, ResticOptionalKeys[i],
                                     TRUE)],
         command |-> <<"/entry.sh">>,
         args |-> actions,
         image |-> ResticContainerImage,
         runAsUser |-> Ptr(0),
         capabilities |-> <<>>,
         volumeMounts |-> << VolumeMount(dataVolumeName, mountPath),
                             VolumeMount(resticCache, resticCacheMountPath) >>] >>,
     volumes |-> << PVCVolume(dataVolumeName, dataPVCName),
                    PVCVolume(resticCache, cachePVCName) >>,
     serviceAccountName |-> ""]

ResticPodSpec(action, forgetOptions, dataPVCName, cachePVCName, resticSecretName) ==
    LET actions == IF action = Restore THEN <<"restore">>
                   ELSE IF action = BackupAndPrune THEN <<"backup", "prune">>
                   ELSE <<"backup">>
    IN
    [containers |-> <<
        [name |-> "restic",
         env |-> << EnvVar("FORGET_OPTIONS", forgetOptions),
                    EnvVar("DATA_DIR", mountPath),
                    EnvVar("RESTIC_CACHE_DIR", resticCacheMountPath),
                    envFromSecret(resticSecretName, "RESTIC_REPOSITORY", FALSE),
                    envFromSecret(resticSecretName, "RESTIC_PASSWORD", FALSE) >>
                 \o [i \in 1..Len(ResticOptionalKeys) |->
                       envFromSecret(resticSecretName, ResticOptionalKeys[i],
                                     TRUE)],
         command |-> <<"/entry.sh">>,
         args |-> actions,
         image |-> ResticContainerImage,
         runAsUser |-> Ptr(0),
         capabilities |-> <<>>,
         volumeMounts |-> << VolumeMount(dataVolumeName, mountPath),
                             VolumeMount(resticCache, resticCacheMountPath) >>] >>,
     volumes |-> << PVCVolume(dataVolumeName, dataPVCName),
                    PVCVolume(resticCache, cachePVCName) >>,
     serviceAccountName |-> ""]

(* Variant: no capabilities are added. *)
RsyncPodSpecNoCaps(isSource, dataPVCName, sshSecretName) ==
    LET command == IF isSource THEN <<"/bin/bash", "-c", "/source.sh">>
                   ELSE <<"/bin/bash", "-c", "/destination.sh">>
    IN
    [containers |-> <<
        [name |-> "rsync",
         env |-> <<>>,
         command |-> command,
         args |-> <<>>,
         image |-> RsyncContainerImage,
         runAsUser |-> Ptr(0),
         capabilities |-> <<>>,
         volumeMounts |-> << VolumeMount(dataVolumeName, mountPath),
                             VolumeMount("keys", "/keys") >>] >>,
     volumes |-> << PVCVolume(dataVolumeName, dataPVCName),
                    SecretVolume("keys", sshSecretName, secretMode) >>,
     serviceAccountName |-> ""]

(* Variant: the two command lines are exchanged. *)
RsyncPodSpecSwapped(isSource, dataPVCName, sshSecretName) ==
    LET command == IF ~isSource THEN <<"/bin/bash", "-c", "/source.sh">>
                   ELSE <<"/bin/bash", "-c", "/destination.sh">>
    IN
    [containers |-> <<
        [name |-> "rsync",
         env |-> <<>>,
         command |-> command,
         args |-> <<>>,
         image |-> RsyncContainerImage,
         runAsUser |-> Ptr(0),
         capabilities |-> <<"AUDIT_WRITE", "SYS_CHROOT">>,
         volumeMounts |-> << VolumeMount(dataVolumeName, mountPath),
                             VolumeMount("keys", "/keys") >>] >>,
     volumes |-> << PVCVolume(dataVolumeName, dataPVCName),
                    SecretVolume("keys", sshSecretName, secretMode) >>,
     serviceAccountName |-> ""]

RsyncPodSpec(isSource, dataPVCName, sshSecretName) ==
    LET command == IF isSource THEN <<"/bin/bash", "-c", "/source.sh">>
                   ELSE <<"/bin/bash", "-c", "/destination.sh">>
    IN
    [containers |-> <<
        [name |-> "rsync",
         env |-> <<>>,
         command |-> command,
         args |-> <<>>,
         image |-> RsyncContainerImage,
         runAsUser |-> Ptr(0),
         capabilities |-> <<"AUDIT_WRITE", "SYS_CHROOT">>,
         volumeMounts |-> << VolumeMount(dataVolumeName, mountPath),
                             VolumeMount("keys", "/keys") >>] >>,
     volumes |-> << PVCVolume(dataVolumeName, dataPVCName),
                    SecretVolume("keys", sshSecretName, secretMode) >>,
     serviceAccountName |-> ""]

(* Variant: the builder keeps the service account already set. *)
WithSpecKeepAccount(tmpl, spec) ==
    [labels |-> tmpl.labels, containers |-> spec.containers,
     volumes |-> spec.volumes,
     serviceAccountName |-> tmpl.serviceAccountName]

(* jr.desired.Spec = corev1.PodSpec{...}: the whole pod spec is replaced,  *)
(* the template's labels are kept.                                         *)
WithSpec(tmpl, spec) ==
    [labels |-> tmpl.labels, containers |-> spec.containers,
     volumes |-> spec.volumes, serviceAccountName |-> spec.serviceAccountName]

----------------------------------------------------------------------------
(* The setters and builders of JobReconciler.  The caller constructs a     *)
(* reconciler, configures it (a builder, extra environment, service        *)
(* account, pause) and then reconciles: the template is built fresh for    *)
(* every reconciler and is not touched once Reconcile has been called.     *)

Configuring == pc = "idle" /\ calls = <<>> /\ ~ret.done

SetPause(pause) ==
    /\ Configuring
    /\ paused' = pause
    /\ UNCHANGED <<desired, schemeOK, lastCfg, reconcilerVars, clusterVars>>

SetServiceAccount(saName) ==
    /\ Configuring
    /\ desired' = [desired EXCEPT !.serviceAccountName = saName]
    /\ UNCHANGED <<paused, schemeOK, lastCfg, reconcilerVars, clusterVars>>

ConfigureRclone(isSource, dataPVCName, destinationPath, configSection, rcloneSecretName) ==
    /\ Configuring
    /\ desired' = WithSpec(desired,
                     RclonePodSpec(isSource, dataPVCName, destinationPath,
                                   configSection, rcloneSecretName))
    /\ lastCfg' = [profile |-> "rclone", dataPVC |-> dataPVCName]
    /\ UNCHANGED <<paused, schemeOK, reconcilerVars, clusterVars>>

ConfigureRestic(action, forgetOptions, dataPVCName, cachePVCName, resticSecretName) ==
    /\ Configuring
    /\ desired' = WithSpec(desired,
                     ResticPodSpec(action, forgetOptions, dataPVCName,
                                   cachePVCName, resticSecretName))
    /\ lastCfg' = [profile |-> "restic", dataPVC |-> dataPVCName]
    /\ UNCHANGED <<paused, schemeOK, reconcilerVars, clusterVars>>

ConfigureRsync(labels, isSource, dataPVCName, sshSecretName) ==
    /\ Configuring
    /\ desired' = [WithSpec(desired,
                      RsyncPodSpec(isSource, dataPVCName, sshSecretName))
                   EXCEPT !.labels = labels]
    /\ lastCfg' = [profile |-> "rsync", dataPVC |-> dataPVCName]
    /\ UNCHANGED <<paused, schemeOK, reconcilerVars, clusterVars>>

(* Number of bindings appended by AddEnv (the model's bound on AddEnv). *)
ExtraEnvCount(tmpl) ==
    Cardinality({i \in 1..Len(tmpl.containers[1].env) :
                    tmpl.containers[1].env[i].name \in EnvNames})

(* Indexing Containers[0] of an empty list is a run-time panic. *)
AddEnv(name, value) ==
    /\ Configuring
    /\ IF Len(desired.containers) = 0
       THEN /\ pc' = "panicked"
            /\ UNCHANGED <<desired, job, existing, op, ret, calls>>
       ELSE /\ ExtraEnvCount(desired) < MaxEnv
            /\ desired' = [desired EXCEPT !.containers[1].env =
                              Append(@, EnvVar(name, value))]
            /\ UNCHANGED reconcilerVars
    /\ UNCHANGED <<paused, schemeOK, lastCfg, clusterVars>>

----------------------------------------------------------------------------
(* The Job object: batchv1.Job restricted to the fields that the           *)
(* reconciler reads or writes, plus its resource version and controller    *)
(* owner reference.                                                        *)

OwnerName == "owner"
OtherOwner == "other"

NewJob ==
    [rv |-> 0, owner |-> "", labels |-> NilLabels, backoffLimit |-> NilPtr,
     restartPolicy |-> "", parallelism |-> NilPtr, containers |-> <<>>,
     volumes |-> <<>>, serviceAccountName |-> "", failed |-> 0]

NoJob == [exists |-> FALSE, obj |-> NewJob]

RestartPolicyNever == "Never"

(* ctrl.SetControllerReference fails when the scheme cannot resolve the    *)
(* owner's kind or when the object already has another controller.         *)
SetControllerReferenceFails(j) ==
    \/ ~schemeOK
    \/ j.owner \notin {"", OwnerName}

(* Variant: the live map is replaced by an empty one whether nil or not. *)
MergeLabelsReset(live, want) ==
    LET base == EmptyMap IN
    MkLabels([k \in (DOMAIN base) \cup (DOMAIN want.m) |->
                 IF k \in DOMAIN want.m THEN want.m[k] ELSE base[k]])

(* Variant: the live labels are replaced by the desired ones. *)
MergeLabelsReplace(live, want) == MkLabels(want.m)

(* The label loop of Apply: a nil map is first replaced by an empty one,   *)
(* then every desired entry is stored into it.                             *)
MergeLabels(live, want) ==
    LET base == IF live.isNil THEN EmptyMap ELSE live.m IN
    MkLabels([k \in (DOMAIN base) \cup (DOMAIN want.m) |->
                 IF k \in DOMAIN want.m THEN want.m[k] ELSE base[k]])

(* The fixed retry budget Apply writes. *)
BackoffLimit == 2

(* Variant: the pause flag is not consulted. *)
ApplyFieldsIgnorePause(j) ==
    [j EXCEPT
        !.owner = OwnerName,
        !.labels = MergeLabels(j.labels, desired.labels),
        !.backoffLimit = Ptr(BackoffLimit),
        !.restartPolicy = RestartPolicyNever,
        !.parallelism = Ptr(1),
        !.containers = desired.containers,
        !.serviceAccountName = desired.serviceAccountName,
        !.volumes = desired.volumes]

(* Variant: the volume list of the live object is kept. *)
ApplyFieldsKeepVolumes(j) ==
    [j EXCEPT
        !.owner = OwnerName,
        !.labels = MergeLabels(j.labels, desired.labels),
        !.backoffLimit = Ptr(BackoffLimit),
        !.restartPolicy = RestartPolicyNever,
        !.parallelism = IF paused THEN Ptr(0) ELSE Ptr(1),
        !.containers = desired.containers,
        !.serviceAccountName = desired.serviceAccountName]

(* Variant: the retry budget is only set when the live object has none. *)
ApplyFieldsDefaultBackoff(j) ==
    [j EXCEPT
        !.owner = OwnerName,
        !.labels = MergeLabels(j.labels, desired.labels),
        !.backoffLimit = IF @ = NilPtr THEN Ptr(BackoffLimit) ELSE @,
        !.restartPolicy = RestartPolicyNever,
        !.parallelism = IF paused THEN Ptr(0) ELSE Ptr(1),
        !.containers = desired.containers,
        !.serviceAccountName = desired.serviceAccountName,
        !.volumes = desired.volumes]

(* Lines 92-113 of Apply: what it writes once the controller reference is  *)
(* set.                                                                    *)
ApplyFields(j) ==
    [j EXCEPT
        !.owner = OwnerName,
        !.labels = MergeLabels(j.labels, desired.labels),
        !.backoffLimit = Ptr(BackoffLimit),
        !.restartPolicy = RestartPolicyNever,
        !.parallelism = IF paused THEN Ptr(0) ELSE Ptr(1),
        !.containers = desired.containers,
        !.serviceAccountName = desired.serviceAccountName,
        !.volumes = desired.volumes]

(* Variant: the controller-reference error is logged but not returned. *)
ApplyIgnoreOwnerError(j) == [err |-> "nil", obj |-> ApplyFields(j)]

(* Apply: the error it returns and the object it leaves. *)
Apply(j) ==
    IF SetControllerReferenceFails(j)
    THEN [err |-> "ErrOwner", obj |-> j]
    ELSE [err |-> "nil", obj |-> ApplyFields(j)]

(* Variant: reflect.DeepEqual, for which a nil map differs from an empty one. *)
StrictDeepEqual(x, y) == x = y

(* equality.Semantic.DeepEqual: an empty map equals a nil map. *)
SemanticDeepEqual(x, y) ==
    /\ [x EXCEPT !.labels = NilLabels] = [y EXCEPT !.labels = NilLabels]
    /\ x.labels.m = y.labels.m

(* What the API server keeps and returns of a submitted object: an empty   *)
(* label map is omitted on the wire and comes back nil.                    *)
Stored(j) ==
    [j EXCEPT !.labels = IF j.labels.m = EmptyMap THEN NilLabels ELSE @]

Result(active, err) == [done |-> TRUE, active |-> active, err |-> err]
NoResult == [done |-> FALSE, active |-> FALSE, err |-> "nil"]

Call(verb, err) == [verb |-> verb, err |-> err]

----------------------------------------------------------------------------
(* Reconcile.  Its steps are separated by the API calls it blocks on: the  *)
(* Get of CreateOrUpdate (followed at once by the mutate function Apply    *)
(* and the comparison with the fetched copy), the Create or Update, and    *)
(* the Delete.                                                             *)

(* Variant: a paused Job is never abandoned. *)
AfterSubmitUnlessPaused(j) ==
    /\ IF ~paused /\ j.failed >= Deref(j.backoffLimit)
       THEN /\ pc' = "delete"
            /\ ret' = NoResult
       ELSE /\ pc' = "idle"
            /\ ret' = Result(TRUE, "nil")

(* Variant: exhaustion is reported but the Job is not deleted. *)
AfterSubmitReportOnly(j) ==
    /\ pc' = "idle"
    /\ ret' = IF j.failed >= Deref(j.backoffLimit)
              THEN Result(FALSE, "nil")
              ELSE Result(TRUE, "nil")

(* Variant: the budget must be exceeded, not reached. *)
AfterSubmitExceeded(j) ==
    /\ IF j.failed > Deref(j.backoffLimit)
       THEN /\ pc' = "delete"
            /\ ret' = NoResult
       ELSE /\ pc' = "idle"
            /\ ret' = Result(TRUE, "nil")

(* Lines 71-79: after a successful CreateOrUpdate, j being the object as   *)
(* the API server returned it.                                             *)
AfterSubmit(j) ==
    /\ IF j.failed >= Deref(j.backoffLimit)
       THEN /\ pc' = "delete"
            /\ ret' = NoResult
       ELSE /\ pc' = "idle"
            /\ ret' = Result(TRUE, "nil")

(* Variant: the error is logged and dropped. *)
SubmitFailedSwallow(err) ==
    /\ pc' = "idle"
    /\ op' = "none"
    /\ ret' = Result(FALSE, "nil")

(* Lines 67-70: CreateOrUpdate returned err. *)
SubmitFailed(err) ==
    /\ pc' = "idle"
    /\ op' = "none"
    /\ ret' = Result(FALSE, err)

ReconcileGet(apiFail) ==
    /\ pc = "idle"
    /\ UNCHANGED <<desired, paused, schemeOK, lastCfg, clusterVars>>
    /\ IF apiFail
       THEN /\ calls' = <<Call("get", "ErrAPI")>>
            /\ SubmitFailed("ErrAPI")
            /\ UNCHANGED <<job, existing>>
       ELSE LET fetched == IF server.exists THEN server.obj ELSE job IN
            /\ calls' = <<Call("get", IF server.exists THEN "nil"
                                      ELSE "ErrNotFound")>>
            /\ existing' = fetched
            /\ job' = Apply(fetched).obj
            /\ IF Apply(fetched).err # "nil"
               THEN SubmitFailed(Apply(fetched).err)
               ELSE /\ IF ~server.exists
                       THEN /\ pc' = "create"
                            /\ op' = "none"
                            /\ ret' = NoResult
                       ELSE IF SemanticDeepEqual(fetched, Apply(fetched).obj)
                       THEN /\ op' = "unchanged"
                            /\ AfterSubmit(Apply(fetched).obj)
                       ELSE /\ pc' = "update"
                            /\ op' = "none"
                            /\ ret' = NoResult

(* The API server's validation of a Job: its pod template needs at least   *)
(* one container.                                                          *)
Invalid(j) == Len(j.containers) = 0

(* client.Create: rejected when the object carries a resource version or   *)
(* when an object of that name exists.  A created Job starts with an       *)
(* empty status.                                                           *)
ReconcileCreate(apiFail) ==
    /\ pc = "create"
    /\ UNCHANGED <<desired, paused, schemeOK, lastCfg, existing>>
    /\ LET err == IF apiFail THEN "ErrAPI"
                  ELSE IF job.rv # 0 \/ Invalid(job) THEN "ErrInvalid"
                  ELSE IF server.exists THEN "ErrAlreadyExists"
                  ELSE "nil"
           created == [Stored(job) EXCEPT !.rv = nextRV + 1, !.failed = 0]
       IN
       /\ calls' = Append(calls, Call("create", err))
       /\ IF err # "nil"
          THEN /\ SubmitFailed(err)
               /\ UNCHANGED <<job, clusterVars>>
          ELSE /\ nextRV < MaxRV
               /\ nextRV' = nextRV + 1
               /\ UNCHANGED tampers
               /\ server' = [exists |-> TRUE, obj |-> created]
               /\ job' = created
               /\ op' = "created"
               /\ AfterSubmit(created)

(* Variant: the update is forced, without the resource-version check. *)
ReconcileUpdateForce(apiFail) ==
    /\ pc = "update"
    /\ UNCHANGED <<desired, paused, schemeOK, lastCfg, existing>>
    /\ LET err == IF apiFail THEN "ErrAPI"
                  ELSE IF ~server.exists THEN "ErrNotFound"
                  ELSE IF Invalid(job) THEN "ErrInvalid"
                  ELSE "nil"
           updated == [Stored(job) EXCEPT !.rv = nextRV + 1,
                                          !.failed = server.obj.failed]
       IN
       /\ calls' = Append(calls, Call("update", err))
       /\ IF err # "nil"
          THEN /\ SubmitFailed(err)
               /\ UNCHANGED <<job, clusterVars>>
          ELSE /\ nextRV < MaxRV
               /\ nextRV' = nextRV + 1
               /\ UNCHANGED tampers
               /\ server' = [exists |-> TRUE, obj |-> updated]
               /\ job' = updated
               /\ op' = "updated"
               /\ AfterSubmit(updated)

(* client.Update: rejected when the object is gone or when its resource    *)
(* version is not the stored one.  The status is not written by Update.    *)
ReconcileUpdate(apiFail) ==
    /\ pc = "update"
    /\ UNCHANGED <<desired, paused, schemeOK, lastCfg, existing>>
    /\ LET err == IF apiFail THEN "ErrAPI"
                  ELSE IF ~server.exists THEN "ErrNotFound"
                  ELSE IF server.obj.rv # job.rv THEN "ErrConflict"
                  ELSE IF Invalid(job) THEN "ErrInvalid"
                  ELSE "nil"
           updated == [Stored(job) EXCEPT !.rv = nextRV + 1,
                                          !.failed = server.obj.failed]
       IN
       /\ calls' = Append(calls, Call("update", err))
       /\ IF err # "nil"
          THEN /\ SubmitFailed(err)
               /\ UNCHANGED <<job, clusterVars>>
          ELSE /\ nextRV < MaxRV
               /\ nextRV' = nextRV + 1
               /\ UNCHANGED tampers
               /\ server' = [exists |-> TRUE, obj |-> updated]
               /\ job' = updated
               /\ op' = "updated"
               /\ AfterSubmit(updated)

(* Variant: abandonment suspends the Job (parallelism 0) and keeps it. *)
ReconcileDeleteSuspend(apiFail) ==
    /\ pc = "delete"
    /\ UNCHANGED <<desired, paused, schemeOK, lastCfg, job, op, nextRV,
                   tampers>>
    /\ LET err == IF apiFail THEN "ErrAPI"
                  ELSE IF ~server.exists THEN "ErrNotFound"
                  ELSE "nil"
       IN
       /\ calls' = Append(calls, Call("delete", err))
       /\ existing' = existing
       /\ server' = IF err = "nil"
                    THEN [server EXCEPT !.obj.parallelism = Ptr(0)]
                    ELSE server
       /\ pc' = "idle"
       /\ ret' = Result(FALSE, err)

(* Variant: the error of the delete is dropped. *)
ReconcileDeleteSwallow(apiFail) ==
    /\ pc = "delete"
    /\ UNCHANGED <<desired, paused, schemeOK, lastCfg, job, op, nextRV,
                   tampers>>
    /\ LET err == IF apiFail THEN "ErrAPI"
                  ELSE IF ~server.exists THEN "ErrNotFound"
                  ELSE "nil"
       IN
       /\ calls' = Append(calls, Call("delete", err))
       /\ existing' = existing
       /\ server' = IF err = "nil" THEN NoJob ELSE server
       /\ pc' = "idle"
       /\ ret' = Result(FALSE, "nil")

(* Lines 73-74: cl.Delete with background propagation; its error is the    *)
(* error Reconcile returns.                                                *)
ReconcileDelete(apiFail) ==
    /\ pc = "delete"
    /\ UNCHANGED <<desired, paused, schemeOK, lastCfg, job, op, nextRV,
                   tampers>>
    /\ LET err == IF apiFail THEN "ErrAPI"
                  ELSE IF ~server.exists THEN "ErrNotFound"
                  ELSE "nil"
       IN
       /\ calls' = Append(calls, Call("delete", err))
       /\ existing' = existing
       /\ server' = IF err = "nil" THEN NoJob ELSE server
       /\ pc' = "idle"
       /\ ret' = Result(FALSE, err)

(* NewJobReconciler: a new reconciler around a new, empty Job object. *)
NewJobReconciler ==
    /\ pc = "idle"
    /\ ret.done
    /\ desired' = EmptyTemplate
    /\ paused' = FALSE
    /\ job' = NewJob
    /\ existing' = NewJob
    /\ op' = "none"
    /\ ret' = NoResult
    /\ calls' = <<>>
    /\ lastCfg' = NoCfg
    /\ UNCHANGED <<schemeOK, pc, clusterVars>>

----------------------------------------------------------------------------
(* Other writers of the stored Job. *)

(* The Job controller records more failed attempts, n in total. *)
JobFails(n) ==
    /\ server.exists
    /\ n > server.obj.failed
    /\ nextRV < MaxRV
    /\ nextRV' = nextRV + 1
    /\ server' = [server EXCEPT !.obj.failed = n, !.obj.rv = nextRV + 1]
    /\ UNCHANGED <<desired, paused, schemeOK, lastCfg, reconcilerVars, tampers>>

ForeignContainer ==
    [name |-> "sidecar", env |-> <<>>, command |-> <<"/bin/sh">>,
     args |-> <<>>, image |-> "other-image", runAsUser |-> NilPtr,
     capabilities |-> <<>>, volumeMounts |-> <<>>]

Tampered(j, field) ==
    CASE field = "containers" ->
            [j EXCEPT !.containers = Append(@, ForeignContainer)]
      [] field = "volumes" -> [j EXCEPT !.volumes = <<>>]
      [] field = "serviceAccountName" ->
            [j EXCEPT !.serviceAccountName = "intruder"]
      [] field = "backoffLimit" -> [j EXCEPT !.backoffLimit = Ptr(6)]
      [] field = "restartPolicy" -> [j EXCEPT !.restartPolicy = "OnFailure"]
      [] field = "parallelism" -> [j EXCEPT !.parallelism = Ptr(3)]
      [] field = "owner" -> [j EXCEPT !.owner = OtherOwner]
      [] field = "label" ->
            [j EXCEPT !.labels = MkLabels([k \in {"a"} |-> "1"])]

TamperFields ==
    {"containers", "volumes", "serviceAccountName", "backoffLimit",
     "restartPolicy", "parallelism", "owner", "label"}

(* Another client updates a field of the stored Job. *)
ExternalModify(field) ==
    /\ server.exists
    /\ nextRV < MaxRV
    /\ tampers < MaxTamper
    /\ Tampered(server.obj, field) # server.obj
    /\ tampers' = tampers + 1
    /\ nextRV' = nextRV + 1
    /\ server' = [server EXCEPT
                     !.obj = [Tampered(server.obj, field) EXCEPT
                                 !.rv = nextRV + 1]]
    /\ UNCHANGED <<desired, paused, schemeOK, lastCfg, reconcilerVars>>

(* Another client deletes the stored Job. *)
ExternalDelete ==
    /\ server.exists
    /\ server' = NoJob
    /\ UNCHANGED <<desired, paused, schemeOK, lastCfg, reconcilerVars, nextRV,
                   tampers>>

----------------------------------------------------------------------------
Init ==
    /\ desired = EmptyTemplate
    /\ paused = FALSE
    /\ schemeOK \in BOOLEAN
    /\ job = NewJob
    /\ existing = NewJob
    /\ server = NoJob
    /\ nextRV = 0
    /\ pc = "idle"
    /\ op = "none"
    /\ ret = NoResult
    /\ calls = <<>>
    /\ lastCfg = NoCfg
    /\ tampers = 0

(* The reconciler and the Job controller: Jobs fail and are deleted while  *)
(* reconcilers come and go.                                                *)
Next ==
    \/ \E b \in BOOLEAN : SetPause(b)
    \/ SetServiceAccount("sa1")
    \/ ConfigureRclone(TRUE, "pvc1", "/dst", "sec", "secret1")
    \/ ConfigureRestic(BackupAndPrune, "--keep-last 2", "pvc1", "pvc2",
                       "secret1")
    \/ \E l \in CallerLabels : ConfigureRsync(l, TRUE, "pvc1", "secret1")
    \/ NewJobReconciler
    \/ \E f \in BOOLEAN : ReconcileGet(f)
    \/ \E f \in BOOLEAN : ReconcileCreate(f)
    \/ \E f \in BOOLEAN : ReconcileUpdate(f)
    \/ \E f \in BOOLEAN : ReconcileDelete(f)
    \/ \E n \in 1..MaxFailed : JobFails(n)
    \/ ExternalDelete

Spec == Init /\ [][Next]_vars

(* The reconciler and other clients that modify the stored Job. *)
NextDrift ==
    \/ \E b \in BOOLEAN : SetPause(b)
    \/ SetServiceAccount("sa1")
    \/ ConfigureRclone(TRUE, "pvc1", "/dst", "sec", "secret1")
    \/ ConfigureRestic(BackupAndPrune, "--keep-last 2", "pvc1", "pvc2",
                       "secret1")
    \/ \E l \in CallerLabels : ConfigureRsync(l, TRUE, "pvc1", "secret1")
    \/ NewJobReconciler
    \/ \E f \in BOOLEAN : ReconcileGet(f)
    \/ \E f \in BOOLEAN : ReconcileCreate(f)
    \/ \E f \in BOOLEAN : ReconcileUpdate(f)
    \/ \E fld \in TamperFields : ExternalModify(fld)

SpecDrift == Init /\ [][NextDrift]_vars

----------------------------------------------------------------------------
(* The builders alone: one reconciler being configured, with every         *)
(* combination of the builders' arguments.                                 *)

NextBuild ==
    \/ \E b \in BOOLEAN : SetPause(b)
    \/ \E sa \in SANames : SetServiceAccount(sa)
    \/ \E src \in BOOLEAN, pvc \in PVCNames, d \in Paths, c \in Sections,
          s \in SecretNames : ConfigureRclone(src, pvc, d, c, s)
    \/ \E a \in ResticActions, f \in ForgetOpts, pvc \in PVCNames,
          cache \in PVCNames, s \in SecretNames :
            ConfigureRestic(a, f, pvc, cache, s)
    \/ \E l \in AllLabels, src \in BOOLEAN, pvc \in PVCNames,
          s \in SecretNames : ConfigureRsync(l, src, pvc, s)
    \/ \E n \in EnvNames, v \in EnvValues : AddEnv(n, v)

SpecBuild == Init /\ [][NextBuild]_vars

(* The three builders alone, called in any order with any arguments. *)
NextProfile ==
    \/ \E src \in BOOLEAN, pvc \in PVCNames, d \in Paths, c \in Sections,
          s \in SecretNames : ConfigureRclone(src, pvc, d, c, s)
    \/ \E a \in ResticActions, f \in ForgetOpts, pvc \in PVCNames,
          cache \in PVCNames, s \in SecretNames :
            ConfigureRestic(a, f, pvc, cache, s)
    \/ \E l \in AllLabels, src \in BOOLEAN, pvc \in PVCNames,
          s \in SecretNames : ConfigureRsync(l, src, pvc, s)

SpecProfile == Init /\ [][NextProfile]_vars

(* One Reconcile of a stored Job whose template labels were set by         *)
(* anyone, against a template with any desired labels.                     *)

InitMerge ==
    /\ desired \in {[WithSpec(EmptyTemplate,
                              RsyncPodSpec(TRUE, "pvc1", "secret1"))
                     EXCEPT !.labels = d] : d \in AllLabels}
    /\ paused \in BOOLEAN
    /\ schemeOK = TRUE
    /\ job = NewJob
    /\ existing = NewJob
    /\ server \in {[exists |-> TRUE,
                    obj |-> Stored([NewJob EXCEPT
                        !.rv = 1, !.owner = OwnerName, !.labels = l,
                        !.backoffLimit = Ptr(BackoffLimit),
                        !.restartPolicy = RestartPolicyNever,
                        !.parallelism = Ptr(1),
                        !.containers = desired.containers,
                        !.volumes = desired.volumes])] : l \in AllLabels}
    /\ nextRV = 1
    /\ tampers = 0
    /\ pc = "idle"
    /\ op = "none"
    /\ ret = NoResult
    /\ calls = <<>>
    /\ lastCfg = [profile |-> "rsync", dataPVC |-> "pvc1"]

NextMerge ==
    \/ \E f \in BOOLEAN : ReconcileGet(f)
    \/ \E f \in BOOLEAN : ReconcileUpdate(f)

SpecMerge == InitMerge /\ [][NextMerge]_vars

----------------------------------------------------------------------------
(* The control loop: the caller builds a reconciler, selects a builder,    *)
(* reconciles, and comes back, with the same reconciler or a new one; the  *)
(* Job controller records failures; nobody else touches the Job.  The      *)
(* caller keeps reconciling and every kind of API call succeeds again and  *)
(* again.  The Job controller and new reconcilers leave the reconciler in  *)
(* place the resource version its own write needs.                         *)

Configured == lastCfg.profile # "none"

SelectBuilder ==
    \/ ConfigureRclone(TRUE, "pvc1", "/dst", "sec", "secret1")
    \/ ConfigureRestic(BackupAndPrune, "--keep-last 2", "pvc1", "pvc2",
                       "secret1")

NextLive ==
    \/ \E b \in BOOLEAN : SetPause(b)
    \/ SelectBuilder
    \/ nextRV < MaxRV /\ NewJobReconciler
    \/ \E f \in BOOLEAN : Configured /\ ReconcileGet(f)
    \/ \E f \in BOOLEAN : ReconcileCreate(f)
    \/ \E f \in BOOLEAN : ReconcileUpdate(f)
    \/ \E f \in BOOLEAN : ReconcileDelete(f)
    \/ \E n \in 1..MaxFailed : nextRV + 1 < MaxRV /\ JobFails(n)

SpecLive ==
    /\ Init
    /\ [][NextLive]_vars
    /\ WF_vars(~Configured /\ SelectBuilder)
    /\ SF_vars(Configured /\ ReconcileGet(FALSE))
    /\ SF_vars(ReconcileCreate(FALSE))
    /\ SF_vars(ReconcileUpdate(FALSE))
    /\ SF_vars(ReconcileDelete(FALSE))

----------------------------------------------------------------------------
(* The setters in any order around the builders, followed by Reconcile:    *)
(* a caller that sets the service account and adds environment bindings    *)
(* before or after selecting a builder.                                    *)

AnyBuilder ==
    \/ ConfigureRclone(TRUE, "pvc1", "/dst", "sec", "secret1")
    \/ ConfigureRestic(Restore, "--keep-last 2", "pvc1", "pvc2", "secret1")
    \/ ConfigureRsync(NilLabels, FALSE, "pvc1", "secret1")

NextOrder ==
    \/ SetServiceAccount("sa1")
    \/ \E n \in EnvNames, v \in EnvValues : AddEnv(n, v)
    \/ AnyBuilder
    \/ NewJobReconciler
    \/ \E f \in BOOLEAN : ReconcileGet(f)
    \/ \E f \in BOOLEAN : ReconcileCreate(f)
    \/ \E f \in BOOLEAN : ReconcileUpdate(f)

SpecOrder == Init /\ [][NextOrder]_vars

----------------------------------------------------------------------------
(* Vocabulary of the properties. *)

Returned == pc = "idle" /\ ret.done
SubmitOK == op # "none"
Last(q) == q[Len(q)]
Issued(verb) == \E i \in 1..Len(calls) : calls[i].verb = verb
DeleteIssued == Issued("delete")
(* Apply ran in the current/last Reconcile: the Get did not fail. *)
ApplyRan == calls # <<>> /\ calls[1].err # "ErrAPI"
(* A fetch, create or update of the current/last Reconcile failed. *)
CallFailed(c) ==
    \/ c.verb = "get" /\ c.err = "ErrAPI"
    \/ c.verb \in {"create", "update"} /\ c.err # "nil"
PausedParallelism == IF paused THEN Ptr(0) ELSE Ptr(1)

(* C1, as amended: when the submission succeeded and the failed count read *)
(* back equals the budget, Reconcile issues a delete and returns false     *)
(* with the error of that delete (nil when the delete succeeded); when the *)
(* count is one below the budget it returns (true, nil) without a delete.  *)
C1_RetryBudget ==
    Returned /\ SubmitOK =>
        /\ job.failed = BackoffLimit =>
              /\ DeleteIssued
              /\ Last(calls).verb = "delete"
              /\ ret = Result(FALSE, Last(calls).err)
        /\ job.failed = BackoffLimit - 1 =>
              /\ ~DeleteIssued
              /\ ret = Result(TRUE, "nil")

C1_Witness ==
    /\ Returned /\ SubmitOK
    /\ job.failed = BackoffLimit
    /\ Last(calls) = Call("delete", "nil")
    /\ ret = Result(FALSE, "nil")
    /\ ~server.exists

(* C1 as stated: with the count at the budget the result is (false, nil). *)
C1_AsStated ==
    Returned /\ SubmitOK =>
        /\ job.failed = BackoffLimit =>
              DeleteIssued /\ ret = Result(FALSE, "nil")
        /\ job.failed = BackoffLimit - 1 =>
              ~DeleteIssued /\ ret = Result(TRUE, "nil")

(* The stored Job is what the last Reconcile left: the object it got back, *)
(* or nothing when it deleted it.                                          *)
LeftAlone ==
    IF DeleteIssued /\ Last(calls).err = "nil"
    THEN ~server.exists
    ELSE server.exists /\ server.obj.rv = job.rv
(* A step that is the Get of a further Reconcile of the same reconciler,   *)
(* the fetch itself not failing.                                           *)
SecondReconcile ==
    /\ Returned /\ SubmitOK /\ LeftAlone
    /\ Len(calls') = 1 /\ calls'[1].verb = "get" /\ calls'[1].err # "ErrAPI"
    /\ server' = server

(* C2, as amended: a second Reconcile with nothing changed since the first *)
(* submitted successfully reports "unchanged", issues no create or update  *)
(* and is no error, provided the first did not delete the Job.             *)
C2_Idempotent ==
    [][SecondReconcile /\ server.exists =>
          /\ op' = "unchanged"
          /\ ~ret'.done \/ ret'.err = "nil"
          /\ pc' \in {"idle", "delete"}]_vars

C2_Witness ==
    /\ Returned /\ ret = Result(TRUE, "nil")
    /\ op = "unchanged"
    /\ calls = <<Call("get", "nil")>>
    /\ server.exists /\ existing = server.obj
    /\ existing.labels = NilLabels /\ job.labels = MkLabels(EmptyMap)

(* C2 as stated: also when the first Reconcile abandoned the Job. *)
C2_AsStated ==
    [][SecondReconcile =>
          /\ op' = "unchanged"
          /\ ~ret'.done \/ ret'.err = "nil"
          /\ pc' \in {"idle", "delete"}]_vars

(* C3: after Apply the template labels are the live labels overridden by   *)
(* the desired ones: every desired key has the desired value, every other  *)
(* live key keeps its value, and there are no other keys; what the API     *)
(* server stores after the update has the same entries.                    *)
C3_LabelMerge ==
    ApplyRan /\ ret.err # "ErrOwner" =>
        LET L == existing.labels.m
            D == desired.labels.m
            R == job.labels.m
        IN
        /\ DOMAIN R = (DOMAIN L) \cup (DOMAIN D)
        /\ \A k \in DOMAIN D : R[k] = D[k]
        /\ \A k \in (DOMAIN L) \ (DOMAIN D) : R[k] = L[k]
        /\ SubmitOK => server.obj.labels.m = R

C3_Witness ==
    /\ op = "updated"
    /\ existing.labels = MkLabels([k \in {"a"} |-> "1"])
    /\ desired.labels = MkLabels([k \in {"b"} |-> "2"])
    /\ server.obj.labels =
          MkLabels([k \in {"a", "b"} |-> IF k = "a" THEN "1" ELSE "2"])

(* C4: once a Reconcile has submitted the Job, the parallelism it got back *)
(* is 0 if the reconciler is paused and 1 if it is not (SetPause(false) or *)
(* no SetPause); whatever the reconciler submits has parallelism 0 or 1.   *)
C4_PauseGate ==
    /\ SubmitOK => job.parallelism = PausedParallelism
    /\ pc \in {"create", "update"} => job.parallelism \in {Ptr(0), Ptr(1)}

C4_Witness ==
    /\ Returned /\ ret = Result(TRUE, "nil")
    /\ paused
    /\ op = "updated"
    /\ existing.parallelism = Ptr(3)
    /\ server.exists /\ server.obj.parallelism = Ptr(0)

(* C5: once a Reconcile has submitted the Job, its containers, volumes and *)
(* service account are those of the desired template; and when the        *)
(* fetched Job differed from the template in one of them, the submission   *)
(* was an update.                                                          *)
C5_WholesaleReplace ==
    SubmitOK =>
        /\ job.containers = desired.containers
        /\ job.volumes = desired.volumes
        /\ job.serviceAccountName = desired.serviceAccountName
        /\ ( /\ calls[1] = Call("get", "nil")
             /\ \/ existing.containers # desired.containers
                \/ existing.volumes # desired.volumes
                \/ existing.serviceAccountName # desired.serviceAccountName )
           => op = "updated"

C5_Witness ==
    /\ Returned /\ ret = Result(TRUE, "nil")
    /\ op = "updated"
    /\ existing.volumes = <<>>
    /\ existing.containers = desired.containers
    /\ server.exists /\ server.obj.volumes = desired.volumes
    /\ Len(desired.volumes) = 2

(* C6: once a Reconcile has submitted the Job, its backoff limit is 2 and  *)
(* its restart policy is Never, for every profile and pause setting and    *)
(* whatever the fetched Job held.                                          *)
C6_FixedPolicy ==
    SubmitOK =>
        /\ job.backoffLimit = Ptr(2)
        /\ job.restartPolicy = "Never"

C6_Witness ==
    /\ Returned /\ ret = Result(TRUE, "nil")
    /\ existing.backoffLimit = Ptr(6)
    /\ lastCfg.profile = "restic"
    /\ paused
    /\ server.exists /\ server.obj.backoffLimit = Ptr(2)
    /\ server.obj.restartPolicy = "Never"

(* C7: after a Configure* call, followed by any AddEnv, SetServiceAccount  *)
(* and SetPause calls, the template has exactly one container, which       *)
(* mounts the data volume at mountPath, and the data volume is the         *)
(* caller's data claim.                                                    *)
C7_SingleContainer ==
    lastCfg.profile # "none" =>
        /\ Len(desired.containers) = 1
        /\ Cardinality({i \in 1..Len(desired.containers[1].volumeMounts) :
              desired.containers[1].volumeMounts[i] =
                 VolumeMount(dataVolumeName, mountPath)}) = 1
        /\ \A i \in 1..Len(desired.containers[1].volumeMounts) :
              desired.containers[1].volumeMounts[i].name = dataVolumeName
                 => desired.containers[1].volumeMounts[i].mountPath = mountPath
        /\ Cardinality({i \in 1..Len(desired.volumes) :
              desired.volumes[i].name = dataVolumeName}) = 1
        /\ \A i \in 1..Len(desired.volumes) :
              desired.volumes[i].name = dataVolumeName
                 => desired.volumes[i] =
                       PVCVolume(dataVolumeName, lastCfg.dataPVC)

C7_Witness ==
    /\ lastCfg = [profile |-> "rclone", dataPVC |-> "pvc2"]
    /\ ExtraEnvCount(desired) = 1
    /\ desired.serviceAccountName = "sa1"
    /\ paused
    /\ Len(desired.containers) = 1
    /\ desired.containers[1].volumeMounts[1] =
          VolumeMount(dataVolumeName, mountPath)

(* C8: when setting the controller reference fails in Apply, Reconcile     *)
(* returns (false, that error) having issued nothing but the fetch: no     *)
(* create, update or delete, and no second attempt.                        *)
C8_OwnerFailure ==
    ret.done /\ ApplyRan /\ SetControllerReferenceFails(existing) =>
        /\ ret = Result(FALSE, "ErrOwner")
        /\ Len(calls) = 1 /\ calls[1].verb = "get"
        /\ op = "none"
        /\ pc = "idle"
        /\ job = existing

C8_Witness ==
    /\ ret = Result(FALSE, "ErrOwner")
    /\ calls = <<Call("get", "nil")>>
    /\ schemeOK
    /\ server.exists /\ server.obj.owner = OtherOwner
    /\ job = server.obj

(* C9: when the fetch, the create or the update fails, Reconcile returns   *)
(* (false, that error); the failed call is its last one, each call was     *)
(* issued once, there is no delete; and the failed call leaves the stored  *)
(* Job as it was.                                                          *)
C9_TransientError ==
    /\ [](ret.done /\ (\E i \in 1..Len(calls) : CallFailed(calls[i])) =>
            /\ CallFailed(Last(calls))
            /\ ret = Result(FALSE, Last(calls).err)
            /\ op = "none"
            /\ ~DeleteIssued
            /\ Len(calls) <= 2
            /\ \A i, k \in 1..Len(calls) :
                  calls[i].verb = calls[k].verb => i = k)
    /\ [][Len(calls') > 0 /\ calls' # calls /\ CallFailed(Last(calls'))
             => server' = server /\ nextRV' = nextRV]_vars

C9_Witness ==
    /\ ret = Result(FALSE, "ErrConflict")
    /\ calls = <<Call("get", "nil"), Call("update", "ErrConflict")>>
    /\ server.exists /\ server.obj.rv # job.rv

(* C10: a Reconcile returns (false, nil) exactly when its delete           *)
(* succeeded; when any of its calls failed or the controller reference     *)
(* could not be set, it returns a non-nil error; and a failed delete       *)
(* returns (false, the error of the delete).                               *)
C10_AbandonVsError ==
    ret.done =>
        /\ ret = Result(FALSE, "nil") <=>
              (calls # <<>> /\ Last(calls) = Call("delete", "nil"))
        /\ ( \/ \E i \in 1..Len(calls) : calls[i].err \notin {"nil", "ErrNotFound"}
             \/ \E i \in 1..Len(calls) :
                   calls[i].verb # "get" /\ calls[i].err # "nil"
             \/ ApplyRan /\ SetControllerReferenceFails(existing) )
           => ~ret.active /\ ret.err # "nil"
        /\ DeleteIssued => ret = Result(FALSE, Last(calls).err)

C10_Witness ==
    /\ ret = Result(FALSE, "ErrAPI")
    /\ Len(calls) = 2
    /\ Last(calls) = Call("delete", "ErrAPI")
    /\ server.exists /\ server.obj.failed >= BackoffLimit

(* C11: a successful abandonment leaves no Job on the API server; a Job    *)
(* only comes to exist through a create that reports "created", starts     *)
(* with failed count 0 and makes Reconcile return (true, nil): no update   *)
(* brings the abandoned Job back; and the Reconcile of a new, configured   *)
(* reconciler that finds no Job, and whose calls and controller reference  *)
(* succeed, is such a create.                                              *)
C11_FreshRetry ==
    /\ [](Returned /\ DeleteIssued /\ Last(calls).err = "nil"
            => ~server.exists)
    /\ [](( /\ Returned /\ calls # <<>>
            /\ calls[1] = Call("get", "ErrNotFound")
            /\ existing = NewJob
            /\ schemeOK /\ Len(desired.containers) > 0
            /\ \A i \in 1..Len(calls) : calls[i].err # "ErrAPI" )
           => /\ calls = <<Call("get", "ErrNotFound"), Call("create", "nil")>>
              /\ op = "created"
              /\ job.failed = 0
              /\ ret = Result(TRUE, "nil")
              /\ server.exists /\ server.obj.rv >= job.rv)
    /\ [][~server.exists /\ server'.exists
             => /\ Last(calls') = Call("create", "nil")
                /\ op' = "created"
                /\ server'.obj.failed = 0
                /\ server'.obj.rv > job.rv
                /\ ret' = Result(TRUE, "nil")]_vars

C11_Witness ==
    /\ Returned /\ ret = Result(TRUE, "nil")
    /\ op = "created"
    /\ calls = <<Call("get", "ErrNotFound"), Call("create", "nil")>>
    /\ existing = NewJob
    /\ job.rv = 3 /\ job.failed = 0
    /\ server.exists /\ server.obj = job

(* C19: in a Reconcile that has returned, a delete was issued exactly when *)
(* the create or update succeeded (or nothing had to be submitted) and the *)
(* failed count read back is at least the budget, counts above 2 included, *)
(* whether the reconciler is paused or not; the delete is the last call    *)
(* and comes after the create or update; and Reconcile returns true only   *)
(* after a submission without error with a failed count below 2.           *)
C19_FailureRule ==
    /\ Returned =>
          (DeleteIssued <=> SubmitOK /\ job.failed >= 2)
    /\ pc = "delete" => SubmitOK /\ job.failed >= 2 /\ ~DeleteIssued
    /\ \A i \in 1..Len(calls) :
          calls[i].verb = "delete" =>
             /\ i = Len(calls)
             /\ calls[1] = Call("get", "nil")
             /\ \A k \in 1..(i - 1) : calls[k].err = "nil"
             /\ op \in {"updated", "unchanged"}
             /\ op = "updated" <=> (i = 3 /\ calls[2] = Call("update", "nil"))
    /\ ret.done /\ ret.active =>
          /\ SubmitOK /\ ret.err = "nil"
          /\ job.failed < 2
          /\ \A i \in 1..Len(calls) :
                calls[i].err = "nil" \/ calls[i] = Call("get", "ErrNotFound")

C19_Witness ==
    /\ Returned /\ paused
    /\ job.parallelism = Ptr(0)
    /\ job.failed = 3
    /\ calls = <<Call("get", "nil"), Call("update", "nil"),
                 Call("delete", "nil")>>
    /\ ret = Result(FALSE, "nil")

(* C20: with the caller reconciling again and again and each kind of API   *)
(* call succeeding again and again, a stored Job whose failed count has    *)
(* reached 2 is eventually deleted by a Reconcile that returns             *)
(* (false, nil); and a Job is only ever deleted with a failed count of at  *)
(* least 2.                                                                *)
C20_EventualAbandonment ==
    /\ (server.exists /\ server.obj.failed >= 2)
          ~> ( /\ Returned /\ ret = Result(FALSE, "nil")
               /\ Last(calls) = Call("delete", "nil")
               /\ ~server.exists )
    /\ [][server.exists /\ ~server'.exists
             => /\ server.obj.failed >= 2
                /\ Last(calls') = Call("delete", "nil")]_vars

C20_Witness ==
    /\ Returned /\ ret = Result(FALSE, "nil")
    /\ Last(calls) = Call("delete", "nil")
    /\ op = "updated"
    /\ ~server.exists
    /\ job.failed = 2 /\ job.rv = 3

(* C12: an update whose object carries a resource version other than the  *)
(* stored one (another client wrote between the fetch and the update) is   *)
(* rejected with a conflict: the stored Job stays as the other client left *)
(* it, Reconcile returns (false, conflict) having issued one fetch and one *)
(* update and nothing more; the next Reconcile fetches the stored Job      *)
(* again and applies the template to that.                                 *)
C12_OptimisticConcurrency ==
    /\ [](ret.done /\ calls # <<>>
            /\ Last(calls) = Call("update", "ErrConflict")
          => /\ ret = Result(FALSE, "ErrConflict")
             /\ op = "none" /\ pc = "idle"
             /\ calls = <<Call("get", "nil"), Call("update", "ErrConflict")>>
             /\ server.exists /\ server.obj.rv # job.rv
             /\ job.rv = existing.rv)
    /\ [][( /\ pc = "update" /\ calls' # calls
            /\ Last(calls').err # "ErrAPI"
            /\ server.exists /\ server.obj.rv # job.rv )
          => /\ Last(calls') = Call("update", "ErrConflict")
             /\ server' = server /\ nextRV' = nextRV
             /\ job' = job
             /\ pc' = "idle"
             /\ ret' = Result(FALSE, "ErrConflict")]_vars
    /\ [][( /\ pc = "idle" /\ ret = Result(FALSE, "ErrConflict")
            /\ calls' = <<Call("get", "nil")>> )
          => /\ existing' = server.obj
             /\ job'.rv = server.obj.rv
             /\ \/ ret' = Result(FALSE, "ErrOwner")
                \/ job' = ApplyFields(server.obj)
             /\ server' = server]_vars

C12_Witness ==
    /\ ret = Result(FALSE, "ErrConflict")
    /\ calls = <<Call("get", "nil"), Call("update", "ErrConflict")>>
    /\ tampers = 1
    /\ server.exists /\ server.obj.serviceAccountName = "intruder"
    /\ job.serviceAccountName # "intruder"
    /\ server.obj.rv = job.rv + 1

BuiltContainer == desired.containers[1]
RootUser == Ptr(0)

(* C13, as amended: the container built by ConfigureRsync, for either      *)
(* direction, runs as user 0 and adds exactly the capabilities AUDIT_WRITE *)
(* and SYS_CHROOT; the containers built by ConfigureRestic and             *)
(* ConfigureRclone run as user 0 and add no capability.                    *)
C13_SecurityPosture ==
    Configured =>
        /\ BuiltContainer.runAsUser = RootUser
        /\ lastCfg.profile = "rsync" =>
              /\ Len(BuiltContainer.capabilities) = 2
              /\ {BuiltContainer.capabilities[i] : i \in 1..2} =
                    {"AUDIT_WRITE", "SYS_CHROOT"}
        /\ lastCfg.profile \in {"restic", "rclone"} =>
              BuiltContainer.capabilities = <<>>

C13_Witness ==
    /\ lastCfg.profile = "rsync"
    /\ BuiltContainer.command = <<"/bin/bash", "-c", "/destination.sh">>
    /\ BuiltContainer.runAsUser = Ptr(0)
    /\ BuiltContainer.capabilities = <<"AUDIT_WRITE", "SYS_CHROOT">>

(* C13 as stated: the rsync container runs as a user other than 0. *)
C13_AsStated ==
    Configured =>
        /\ lastCfg.profile = "rsync" =>
              /\ BuiltContainer.runAsUser # NilPtr
              /\ Deref(BuiltContainer.runAsUser) # 0
              /\ Len(BuiltContainer.capabilities) = 2
              /\ {BuiltContainer.capabilities[i] : i \in 1..2} =
                    {"AUDIT_WRITE", "SYS_CHROOT"}
        /\ lastCfg.profile \in {"restic", "rclone"} =>
              /\ BuiltContainer.runAsUser = RootUser
              /\ BuiltContainer.capabilities = <<>>

Elems(q) == {q[i] : i \in 1..Len(q)}

(* C14: ConfigureRestic with BackupAndPrune builds the arguments           *)
(* <<backup, prune>>, with Restore <<restore>>, with BackupOnly            *)
(* <<backup>>; a restic template has one container whose argument list has *)
(* one or two verbs and never holds restore together with backup or prune. *)
C14_ResticActions ==
    /\ [][lastCfg'.profile = "restic" =>
           \A a \in ResticActions, f \in ForgetOpts, pvc \in PVCNames,
             cache \in PVCNames, s \in SecretNames :
             ConfigureRestic(a, f, pvc, cache, s) =>
                /\ a = BackupAndPrune =>
                      desired'.containers[1].args = <<"backup", "prune">>
                /\ a = Restore =>
                      desired'.containers[1].args = <<"restore">>
                /\ a = BackupOnly =>
                      desired'.containers[1].args = <<"backup">>]_vars
    /\ [](lastCfg.profile = "restic" =>
            /\ Len(desired.containers) = 1
            /\ Len(BuiltContainer.args) \in {1, 2}
            /\ "restore" \in Elems(BuiltContainer.args) =>
                  Elems(BuiltContainer.args) = {"restore"})

C14_Witness ==
    /\ lastCfg.profile = "restic"
    /\ BuiltContainer.args = <<"backup", "prune">>
    /\ BuiltContainer.command = <<"/entry.sh">>

(* C15: ConfigureRsync builds the command that runs /source.sh when        *)
(* isSource and the one that runs /destination.sh when not; the two        *)
(* differ, and apart from the command the template is the one the other    *)
(* direction builds.                                                       *)
C15_RsyncDirection ==
    [][lastCfg'.profile = "rsync" =>
        \A l \in AllLabels, src \in BOOLEAN, pvc \in PVCNames,
          s \in SecretNames :
          ConfigureRsync(l, src, pvc, s) =>
             /\ src => desired'.containers[1].command =
                          <<"/bin/bash", "-c", "/source.sh">>
             /\ ~src => desired'.containers[1].command =
                           <<"/bin/bash", "-c", "/destination.sh">>
             /\ RsyncPodSpec(src, pvc, s).containers[1].command #
                   RsyncPodSpec(~src, pvc, s).containers[1].command
             /\ [desired' EXCEPT !.containers[1].command = <<>>] =
                   [WithSpec(desired', RsyncPodSpec(~src, pvc, s))
                       EXCEPT !.containers[1].command = <<>>]]_vars

C15_Witness ==
    /\ lastCfg.profile = "rsync"
    /\ BuiltContainer.command = <<"/bin/bash", "-c", "/source.sh">>
    /\ desired.labels = MkLabels([k \in {"a"} |-> "1"])
    /\ BuiltContainer.env = <<>>

(* The bindings of an environment that read a key of a Secret. *)
SecretBindings(env) == {i \in 1..Len(env) : env[i].secret # ""}

(* C16: of the bindings ConfigureRestic builds from the Secret, the ones   *)
(* for RESTIC_REPOSITORY and RESTIC_PASSWORD, one each, are not optional,   *)
(* every other one is optional, and each reads the key of its own name     *)
(* from the Secret the caller named.                                       *)
C16_ResticCredentials ==
    [][lastCfg'.profile = "restic" =>
        \A a \in ResticActions, f \in ForgetOpts, pvc \in PVCNames,
          cache \in PVCNames, s \in SecretNames :
          ConfigureRestic(a, f, pvc, cache, s) =>
             LET env == desired'.containers[1].env
                 mandatory == {i \in SecretBindings(env) : ~env[i].optional}
             IN
             /\ Cardinality(mandatory) = 2
             /\ {env[i].name : i \in mandatory} =
                   {"RESTIC_REPOSITORY", "RESTIC_PASSWORD"}
             /\ Cardinality(SecretBindings(env)) > 2
             /\ \A i \in SecretBindings(env) :
                   /\ env[i].secret = s
                   /\ env[i].key = env[i].name
                   /\ env[i].value = ""
             /\ \A i \in SecretBindings(env) \ mandatory :
                   env[i].optional
                   /\ env[i].name \notin
                         {"RESTIC_REPOSITORY", "RESTIC_PASSWORD"}]_vars

C16_Witness ==
    /\ lastCfg.profile = "restic"
    /\ Cardinality(SecretBindings(BuiltContainer.env)) = 32
    /\ \E i \in SecretBindings(BuiltContainer.env) :
          /\ BuiltContainer.env[i].name = "RESTIC_PASSWORD"
          /\ BuiltContainer.env[i].secret = "secret2"
          /\ ~BuiltContainer.env[i].optional
    /\ \E i \in SecretBindings(BuiltContainer.env) :
          /\ BuiltContainer.env[i].name = "B2_ACCOUNT_KEY"
          /\ BuiltContainer.env[i].secret = "secret2"
          /\ BuiltContainer.env[i].optional

(* The environment the selected builder builds, by its names. *)
BuilderEnvNames ==
    CASE lastCfg.profile = "rclone" ->
            <<"RCLONE_DEST_PATH", "DIRECTION", "RCLONE_CONFIG",
              "RCLONE_CONFIG_SECTION", "MOUNT_PATH">>
      [] lastCfg.profile = "restic" ->
            <<"FORGET_OPTIONS", "DATA_DIR", "RESTIC_CACHE_DIR",
              "RESTIC_REPOSITORY", "RESTIC_PASSWORD">> \o ResticOptionalKeys
      [] lastCfg.profile = "rsync" -> <<>>
      [] OTHER -> <<>>
EnvNamesOf(c) == [i \in 1..Len(c.env) |-> c.env[i].name]

(* C17: a Configure* call leaves the service account empty and the         *)
(* environment that of the builder alone, whatever SetServiceAccount and   *)
(* AddEnv did before it; SetServiceAccount and AddEnv after it are kept:   *)
(* AddEnv appends its binding and leaves the bindings before it as they    *)
(* were, and what a Reconcile submits carries the service account and the  *)
(* environment of the template.                                            *)
C17_SetterOrdering ==
    /\ [][AnyBuilder =>
             /\ desired'.serviceAccountName = ""
             /\ Len(desired'.containers) = 1
             /\ \A i \in 1..Len(desired'.containers[1].env) :
                   desired'.containers[1].env[i].name \notin EnvNames]_vars
    /\ [](Configured =>
            /\ Len(BuiltContainer.env) =
                  Len(BuilderEnvNames) + ExtraEnvCount(desired)
            /\ SubSeq(EnvNamesOf(BuiltContainer), 1, Len(BuilderEnvNames)) =
                  BuilderEnvNames)
    /\ [][\A n \in EnvNames, v \in EnvValues :
             AddEnv(n, v) /\ Len(desired.containers) > 0 =>
                /\ Len(desired'.containers) = 1
                /\ desired'.containers[1].env =
                      desired.containers[1].env \o <<EnvVar(n, v)>>
                /\ [desired' EXCEPT !.containers[1].env = <<>>] =
                      [desired EXCEPT !.containers[1].env = <<>>]]_vars
    /\ [][SetServiceAccount("sa1") =>
             desired' = [desired EXCEPT !.serviceAccountName = "sa1"]]_vars
    /\ [](SubmitOK =>
            /\ job.serviceAccountName = desired.serviceAccountName
            /\ job.containers = desired.containers
            /\ op \in {"created", "updated"} /\ server.exists =>
                  /\ server.obj.serviceAccountName = desired.serviceAccountName
                  /\ server.obj.containers = desired.containers)

C17_Witness ==
    /\ Returned /\ ret = Result(TRUE, "nil")
    /\ op = "updated"
    /\ lastCfg.profile = "rclone"
    /\ existing.serviceAccountName = ""
    /\ Len(existing.containers[1].env) = 5
    /\ server.exists /\ server.obj.serviceAccountName = "sa1"
    /\ Len(server.obj.containers[1].env) = 6
    /\ server.obj.containers[1].env[6] = EnvVar("EXTRA", "x")

(* C18: a step of Reconcile that leaves the stored Job in place keeps      *)
(* every label key of its template; a key the desired template does not   *)
(* hold (any more) keeps its value; and the update that keeps such a key   *)
(* stores the containers, volumes and service account of the desired       *)
(* template as they are.                                                   *)
C18_LabelsOnlyGrow ==
    [][server.exists /\ server'.exists /\ calls' # calls =>
          LET old == server.obj.labels.m
              new == server'.obj.labels.m
          IN
          /\ DOMAIN old \subseteq DOMAIN new
          /\ \A k \in (DOMAIN old) \ (DOMAIN desired.labels.m) :
                new[k] = old[k]
          /\ calls' # <<>> /\ Last(calls') = Call("update", "nil") =>
                /\ \A k \in DOMAIN desired.labels.m :
                      new[k] = desired.labels.m[k]
                /\ DOMAIN new = (DOMAIN old) \cup (DOMAIN desired.labels.m)
                /\ server'.obj.containers = desired.containers
                /\ server'.obj.volumes = desired.volumes
                /\ server'.obj.serviceAccountName =
                      desired.serviceAccountName]_vars

C18_Witness ==
    /\ Returned /\ op = "updated"
    /\ lastCfg.profile = "rclone"
    /\ desired.labels = NilLabels
    /\ existing.labels = MkLabels([k \in {"b"} |-> "2"])
    /\ existing.containers # desired.containers
    /\ server.exists
    /\ server.obj.labels = MkLabels([k \in {"b"} |-> "2"])
    /\ server.obj.containers = desired.containers

====
